---- MODULE Spec2Model ----
(***************************************************************************)
(* Model of the face-sense-ai-query web application.                       *)
(*                                                                         *)
(* The live-recognition controller is the LiveRecognition React component. *)
(* The repository holds two revisions of it: the face-api.js revision      *)
(* ("real") and the earlier revision that simulates detections             *)
(* ("simulated").  The variable `variant` says which revision is mounted;  *)
(* the state of the two revisions has the same shape (isRecognizing,       *)
(* recognitions, registeredFaces, the interval timer).                     *)
(*                                                                         *)
(* Numbers: descriptor coordinates, distances and confidences are integers *)
(* in tenths (a confidence of 0.6 is 6, a distance of 0.3 is 3).           *)
(*                                                                         *)
(* React: a state change made by a handler, the re-render it causes and    *)
(* the effect that re-render runs (cleanup of the previous effect, then    *)
(* the effect body, then the re-render its own setState causes) form one   *)
(* step: no timer callback or promise continuation runs in between.        *)
(***************************************************************************)
EXTENDS Integers, Sequences, FiniteSets, TLC

VARIABLES
    variant,          \* which revision of LiveRecognition is mounted
    isRecognizing,    \* useState(false)
    recognitions,     \* useState<Recognition[]>([]): the published detection list
    modelsLoaded,     \* useState(false) (real revision)
    loadModels,       \* position of the loadModels() promise: "pending" | "settled"
    registeredFaces,  \* useQuery data: [defined, rows]
    video,            \* webcamRef.current?.video is present
    timers,           \* the active setInterval timers, each with the callback it holds
    interval,         \* the `interval` local of the effect instance in force (0: none)
    inflight,         \* performRecognition calls suspended at the await
    nextTick,         \* number given to the next tick that starts
    lastOp            \* the operation that made the last step, and its inputs

\* One face matched against one knownFaces array (the loop body of
\* performRecognition taken alone, for any order of the array)
VARIABLES
    mDescriptor,      \* detection.descriptor
    mKnownFaces,      \* knownFaces
    mDistances,       \* distance, per known face
    mConfidences,     \* confidence, per known face
    mBestMatch,       \* bestMatch after the inner loop
    mPc               \* "idle" | "input" | "compared" | "selected"

\* The pattern-matching ChatBot component
VARIABLES
    chatRegisteredFaces,  \* useQuery data of ChatBot: [defined, rows]
    messages,             \* useState<ChatMessage[]>: the conversation
    inputMessage,         \* useState(""): the text in the input box
    isLoading,            \* useState(false)
    pendingSend,          \* the handleSendMessage call suspended at the insert
    chatError             \* the "Chat Error" toast has been shown

\* The FaceRegistration component
VARIABLES
    regName,          \* useState(""): the name typed
    isCapturing,      \* useState(false): the camera is shown
    capturedImage,    \* useState<string | null>(null): the photo shown (0: null)
    isRegistering,    \* useState(false)
    regModelsLoaded,  \* useState(false)
    faceDescriptor,   \* useState<Float32Array | null>(null): [present, values]
    detecting,        \* photos whose image load / detectFace call is pending
    inserting,        \* the handleRegister call suspended at the insert
    regTable,         \* rows stored in face_registrations by this form
    nextPhoto,        \* number of the next screenshot
    regOp             \* the operation that made the last step

\* A descriptor written to face_encoding and read back
VARIABLES
    cDescriptor,      \* faceDescriptor handed to handleRegister
    cEncoding,        \* faceEncoding, the text stored
    cParsed,          \* descriptor built by getKnownFaceDescriptors
    cPc               \* "idle" | "input" | "stored" | "parsed"

\* The ChatBot component that calls the ai-chat function (Dashboard.tsx)
VARIABLES
    aiMessages,       \* useState<ChatMessage[]>: the conversation
    aiInputMessage,   \* useState(""): the text in the input box
    aiIsLoading,      \* useState(false)
    aiPending,        \* the handleSendMessage call suspended at functions.invoke
    aiToast           \* the last toast shown

\* The ai-chat edge function
VARIABLES
    fnPc,             \* "idle" | "parsed" | "called" | "storing" | "done"
    fnQuery,          \* query of the request body
    fnContext,        \* contextString
    fnAiResponse,     \* aiResponse
    fnResponse,       \* the Response returned: [status, kind, response]
    fnStored,         \* rows this handler stored in chat_messages
    fnApiKey,         \* Deno.env.get('OPENAI_API_KEY') is set
    fnHandled,        \* requests received
    fnOp              \* the step taken last

liveVars == <<variant, isRecognizing, recognitions, modelsLoaded, loadModels,
              registeredFaces, video, timers, interval, inflight, nextTick, lastOp>>
matchVars == <<mDescriptor, mKnownFaces, mDistances, mConfidences, mBestMatch, mPc>>

chatVars == <<chatRegisteredFaces, messages, inputMessage, isLoading, pendingSend, chatError>>

regVars == <<regName, isCapturing, capturedImage, isRegistering, regModelsLoaded,
             faceDescriptor, detecting, inserting, regTable, nextPhoto, regOp>>
codecVars == <<cDescriptor, cEncoding, cParsed, cPc>>

aiVars == <<aiMessages, aiInputMessage, aiIsLoading, aiPending, aiToast>>
fnVars == <<fnPc, fnQuery, fnContext, fnAiResponse, fnResponse, fnStored, fnApiKey,
            fnHandled, fnOp>>

vars == <<liveVars, matchVars, chatVars, regVars, codecVars, aiVars, fnVars>>

\* the variables of the other components, for each component
notLive == <<matchVars, chatVars, regVars, codecVars, aiVars, fnVars>>
notMatch == <<liveVars, chatVars, regVars, codecVars, aiVars, fnVars>>
notChat == <<liveVars, matchVars, regVars, codecVars, aiVars, fnVars>>
notReg == <<liveVars, matchVars, chatVars, codecVars, aiVars, fnVars>>
notCodec == <<liveVars, matchVars, chatVars, regVars, aiVars, fnVars>>
notAi == <<liveVars, matchVars, chatVars, regVars, codecVars, fnVars>>
notFn == <<liveVars, matchVars, chatVars, regVars, codecVars, aiVars>>

----------------------------------------------------------------------------
(* Bounds of the model *)

\* most faces one detection call returns
MaxFaces == 2
\* most ticks that start in one behaviour
MaxTicks == 2
\* timer ids the browser may hand out at the same time
MaxTimerIds == 2
\* largest first coordinate of a descriptor matched alone
MaxCoord == 14
\* a message is sent only while the conversation is shorter than this
MaxMessages == 3
\* most screenshots taken in one behaviour
MaxPhotos == 2
\* most inserts the registration form issues in one behaviour
MaxRegistrations == 1
\* longest descriptor written and read back alone, and its largest value
MaxDims == 2
MaxValue == 12

----------------------------------------------------------------------------
(* Program constants *)

\* confidence > 0.6, in tenths
Threshold == 6
\* Math.floor(Math.random() * 3) + 1: at most 3 simulated faces
SimMaxFaces == 3
\* width and height of a simulated box
SimWidth == 120
SimHeight == 150

----------------------------------------------------------------------------
(* Numbers and strings *)

Min(a, b) == IF a < b THEN a ELSE b
Max(a, b) == IF a > b THEN a ELSE b

\* Math.sqrt on the values of the model (all of them perfect squares)
Sqrt(n) == CHOOSE r \in 0..n : r * r <= n /\ (r + 1) * (r + 1) > n

Digits == <<"0", "1", "2", "3", "4", "5", "6", "7", "8", "9">>
DigitValue(c) == (CHOOSE i \in 1..10 : Digits[i] = c) - 1

\* String.prototype.split(','): the pieces between the commas, a string
\* being a sequence of characters.  The result always has at least one piece.
RECURSIVE SplitFrom(_, _, _)
SplitFrom(s, i, piece) ==
    IF i > Len(s) THEN <<piece>>
    ELSE IF s[i] = "," THEN <<piece>> \o SplitFrom(s, i + 1, <<>>)
    ELSE SplitFrom(s, i + 1, Append(piece, s[i]))
Split(s) == SplitFrom(s, 1, <<>>)

\* Number(token) for a token of decimal digits with an optional minus sign;
\* Number("") is 0
RECURSIVE NumberFrom(_, _, _)
NumberFrom(t, i, acc) ==
    IF i > Len(t) THEN acc ELSE NumberFrom(t, i + 1, acc * 10 + DigitValue(t[i]))
Number(t) ==
    IF t # <<>> /\ t[1] = "-" THEN 0 - NumberFrom(t, 2, 0) ELSE NumberFrom(t, 1, 0)

\* the decimal digits of a number n >= 0
RECURSIVE DigitsOf(_)
DigitsOf(n) ==
    IF n < 10 THEN <<Digits[n + 1]>> ELSE Append(DigitsOf(n \div 10), Digits[(n % 10) + 1])

NumberToStringUnsigned(n) == DigitsOf(IF n < 0 THEN 0 - n ELSE n)

\* the string join() makes of one number
NumberToString(n) == IF n < 0 THEN <<"-">> \o DigitsOf(0 - n) ELSE DigitsOf(n)

\* Array.prototype.join(','), on the elements from index i
RECURSIVE JoinFrom(_, _)
JoinFrom(a, i) ==
    IF i > Len(a) THEN <<>>
    ELSE IF i = Len(a) THEN NumberToString(a[i])
    ELSE NumberToString(a[i]) \o <<",">> \o JoinFrom(a, i + 1)
Join(a) == JoinFrom(a, 1)

\* new Float32Array(face.face_encoding.split(',').map(Number))
ParseDescriptor(enc) == LET parts == Split(enc) IN [i \in 1..Len(parts) |-> Number(parts[i])]

----------------------------------------------------------------------------
(* The data the model runs on *)

\* rows of face_registrations; the descriptors are (0.3, 0), (0.9, 0) and
\* (1.0, 0), written as face_encoding strings
Alice == [name |-> "Alice", face_encoding |-> <<"3", ",", "0">>]
Bob   == [name |-> "Bob",   face_encoding |-> <<"9", ",", "0">>]
Carol == [name |-> "Carol", face_encoding |-> <<"1", "0", ",", "0">>]

\* results of the face_registrations query, most recent first
RegistryStates == { <<>>, <<Alice>>, <<Bob, Alice>>, <<Carol, Bob, Alice>> }

Undefined == [defined |-> FALSE, rows |-> <<>>]
Defined(rows) == [defined |-> TRUE, rows |-> rows]

\* faces the detector may report: a box (x, y, width, height) and a descriptor.
\* Confidences against Alice, Bob, Carol: the first 0.7, 0.7, 0.6; the
\* second 0.6, 0.8, 0.7; the third 0 (distance 1.1), 0.5, 0.6.
Box(n) == [x |-> n, y |-> n, width |-> 100, height |-> 100]
Faces == { [box |-> Box(1), descriptor |-> <<6, 0>>],
           [box |-> Box(2), descriptor |-> <<7, 0>>],
           [box |-> Box(3), descriptor |-> <<14, 0>>] }

\* what one detectAllFaces call may return: up to MaxFaces different faces
DetectionResults ==
    UNION { { d \in [1..n -> Faces] : \A i, j \in 1..n : i # j => d[i] # d[j] } : n \in 0..MaxFaces }

----------------------------------------------------------------------------
(* performRecognition: the pure part *)

\* faceapi.euclideanDistance(a, b)
RECURSIVE SumSquares(_, _, _)
SumSquares(a, b, i) ==
    IF i > Len(a) THEN 0
    ELSE (a[i] - b[i]) * (a[i] - b[i]) + SumSquares(a, b, i + 1)
euclideanDistance(a, b) == Sqrt(SumSquares(a, b, 1))

\* getKnownFaceDescriptors(): [] while the query has no data, else one
\* {name, descriptor} per row, in the order of the rows
getKnownFaceDescriptors(faces) ==
    IF ~faces.defined THEN <<>>
    ELSE [i \in 1..Len(faces.rows) |->
            [name |-> faces.rows[i].name,
             descriptor |-> ParseDescriptor(faces.rows[i].face_encoding)]]

ConfidenceNoClamp(distance) == 10 - distance

\* Math.max(0, 1 - distance)
Confidence(distance) == Max(0, 10 - distance)

AcceptsAtThreshold(confidence, bestMatch) ==
    confidence >= Threshold /\ confidence > bestMatch.confidence
AcceptsFirstAbove(confidence, bestMatch) ==
    confidence > Threshold /\ bestMatch.confidence = 0
AcceptsLastOfTies(confidence, bestMatch) ==
    confidence > Threshold /\ confidence >= bestMatch.confidence

\* if (confidence > 0.6 && confidence > bestMatch.confidence)
Accepts(confidence, bestMatch) ==
    confidence > Threshold /\ confidence > bestMatch.confidence

\* the inner loop over knownFaces, from index i on, with bestMatch so far
RECURSIVE BestMatchFrom(_, _, _, _)
BestMatchFrom(descriptor, knownFaces, i, bestMatch) ==
    IF i > Len(knownFaces) THEN bestMatch
    ELSE LET confidence == Confidence(euclideanDistance(descriptor, knownFaces[i].descriptor))
         IN  BestMatchFrom(descriptor, knownFaces, i + 1,
                IF Accepts(confidence, bestMatch)
                THEN [name |-> knownFaces[i].name, confidence |-> confidence]
                ELSE bestMatch)
BestMatch(descriptor, knownFaces) ==
    BestMatchFrom(descriptor, knownFaces, 1, [name |-> "Unknown", confidence |-> 0])

PushesAlways(bestMatch) == TRUE

\* if (bestMatch.confidence > 0): the face gets an entry
Pushes(bestMatch) == bestMatch.confidence > 0

\* the outer loop over detections, from index i on: newRecognitions
RECURSIVE RecognizeFrom(_, _, _)
RecognizeFrom(detections, knownFaces, i) ==
    IF i > Len(detections) THEN <<>>
    ELSE LET bestMatch == BestMatch(detections[i].descriptor, knownFaces)
             box == detections[i].box
         IN  (IF Pushes(bestMatch)
              THEN << [name |-> bestMatch.name, confidence |-> bestMatch.confidence,
                       x |-> box.x, y |-> box.y, width |-> box.width, height |-> box.height] >>
              ELSE <<>>)
             \o RecognizeFrom(detections, knownFaces, i + 1)
NewRecognitionsFirstFace(detections, knownFaces) ==
    RecognizeFrom(SubSeq(detections, 1, Min(1, Len(detections))), knownFaces, 1)

NewRecognitions(detections, knownFaces) == RecognizeFrom(detections, knownFaces, 1)

PublishAppend(old, new) == old \o new

\* setRecognitions(newRecognitions): the list replaces the published one
Publish(old, new) == new

----------------------------------------------------------------------------
(* The interval effect *)

CleanupNoClear(ts, iv) == ts

\* return () => { if (interval) clearInterval(interval); }
Cleanup(ts, iv) == { t \in ts : t.id # iv }

\* the id setInterval returns: one not in use
FreeIds(ts) == { i \in 1..MaxTimerIds : \A t \in ts : t.id # i }
FreshId(ts) == CHOOSE i \in FreeIds(ts) : \A j \in FreeIds(ts) : i <= j

\* if (isRecognizing && modelsLoaded) of the real revision, if (isRecognizing)
\* of the simulated one
EffectSchedules(isRec, loaded) ==
    IF variant = "real" THEN isRec /\ loaded ELSE isRec

EffectListKept(list, isRec, loaded) == list

\* the published list after the effect body: the else branch is
\* setRecognitions([])
EffectList(list, isRec, loaded) ==
    IF EffectSchedules(isRec, loaded) THEN list ELSE <<>>

\* One run of the effect for the committed values isRec, loaded, faces: the
\* cleanup of the previous run, then the body.  The callback the new timer
\* holds closes over the values of this render.
RunEffect(isRec, loaded, faces) ==
    LET cleared == Cleanup(timers, interval) IN
    /\ recognitions' = EffectList(recognitions, isRec, loaded)
    /\ IF EffectSchedules(isRec, loaded)
       THEN /\ FreeIds(cleared) # {}
            /\ timers' = cleared \cup
                   { [id |-> FreshId(cleared), modelsLoaded |-> loaded, registeredFaces |-> faces] }
            /\ interval' = FreshId(cleared)
       ELSE /\ timers' = cleared
            /\ interval' = 0

\* lastOp: the operation, and for a step of a tick its number, the
\* detections it got, the knownFaces it compared against and the value
\* registeredFaces had when it started
Op(name) ==
    [op |-> name, tick |-> 0, detections |-> <<>>, knownFaces |-> <<>>, startedWith |-> Undefined]
TickOp(name, n, d, k, f) ==
    [op |-> name, tick |-> n, detections |-> d, knownFaces |-> k, startedWith |-> f]

----------------------------------------------------------------------------
(* Initial state: the component has mounted, nothing has loaded yet.  The  *)
(* first run of the effect finds isRecognizing false and publishes [].     *)

LiveInit ==
    /\ variant \in {"real", "simulated"}
    /\ isRecognizing = FALSE
    /\ recognitions = <<>>
    /\ modelsLoaded = FALSE
    /\ loadModels = IF variant = "real" THEN "pending" ELSE "none"
    /\ registeredFaces = Undefined
    /\ video = FALSE
    /\ timers = {}
    /\ interval = 0
    /\ inflight = {}
    /\ nextTick = 1
    /\ lastOp = Op("mount")

\* the matching of one face is not running
MatchIdle ==
    /\ mDescriptor = <<>>
    /\ mKnownFaces = <<>>
    /\ mDistances = <<>>
    /\ mConfidences = <<>>
    /\ mBestMatch = [name |-> "Unknown", confidence |-> 0]
    /\ mPc = "idle"

\* a ChatMessage: the content of a user message is the query typed, the
\* content of a bot message is the response generated
NoResponse == [kind |-> "", count |-> 0, people |-> <<>>]
UserMessage(query) == [type |-> "user", query |-> query, response |-> NoResponse]
BotMessage(response) == [type |-> "bot", query |-> <<>>, response |-> response]

\* no handleSendMessage call is suspended
NoSend == [active |-> FALSE, query |-> <<>>, response |-> NoResponse, askedWith |-> Undefined]

\* ChatBot has mounted: the greeting is the only message
ChatIdle ==
    /\ chatRegisteredFaces = Undefined
    /\ messages = << BotMessage([kind |-> "greeting", count |-> 0, people |-> <<>>]) >>
    /\ inputMessage = <<>>
    /\ isLoading = FALSE
    /\ pendingSend = NoSend
    /\ chatError = FALSE

\* faceDescriptor: null, or a Float32Array
NoDescriptor == [present |-> FALSE, values |-> <<>>]
Float32Array(values) == [present |-> TRUE, values |-> values]

\* no handleRegister call is suspended
NoInsert == [active |-> FALSE, name |-> "", face_encoding |-> <<>>]

RegOp(op) == [op |-> op]

\* FaceRegistration has mounted
RegIdle ==
    /\ regName = ""
    /\ isCapturing = FALSE
    /\ capturedImage = 0
    /\ isRegistering = FALSE
    /\ regModelsLoaded = FALSE
    /\ faceDescriptor = NoDescriptor
    /\ detecting = {}
    /\ inserting = NoInsert
    /\ regTable = <<>>
    /\ nextPhoto = 1
    /\ regOp = RegOp("mount")

\* no descriptor is being written or read
CodecIdle ==
    /\ cDescriptor = <<>>
    /\ cEncoding = <<>>
    /\ cParsed = <<>>
    /\ cPc = "idle"

\* a ChatMessage of the ai-chat ChatBot: the content of a bot message is
\* the greeting, data.response, the apology shown when data.response is
\* empty, or the error message of the catch block
AiUserMessage(text) == [type |-> "user", content |-> "query", query |-> text]
AiBotMessage(content) == [type |-> "bot", content |-> content, query |-> <<>>]

\* no handleSendMessage call is suspended
AiNoSend == [active |-> FALSE, query |-> <<>>]

\* the ai-chat ChatBot has mounted
AiIdle ==
    /\ aiMessages = << AiBotMessage("greeting") >>
    /\ aiInputMessage = <<>>
    /\ aiIsLoading = FALSE
    /\ aiPending = AiNoSend
    /\ aiToast = "none"

\* no Response has been returned
NoFnResponse == [status |-> 0, kind |-> "none", response |-> ""]
NoContext == [count |-> 0, people |-> <<>>]

\* the ai-chat function is deployed and has received no request
FnIdle ==
    /\ fnPc = "idle"
    /\ fnQuery = ""
    /\ fnContext = NoContext
    /\ fnAiResponse = ""
    /\ fnResponse = NoFnResponse
    /\ fnStored = <<>>
    /\ fnApiKey \in BOOLEAN
    /\ fnHandled = 0
    /\ fnOp = "deploy"

\* every component but the one under study is idle
OthersIdle == AiIdle /\ FnIdle /\ fnApiKey

Init == LiveInit /\ MatchIdle /\ ChatIdle /\ RegIdle /\ CodecIdle /\ OthersIdle

----------------------------------------------------------------------------
(* Operations of both revisions *)

ButtonNeverDisabled == FALSE

\* disabled={!modelsLoaded} on the button of the real revision; the
\* simulated revision never disables it
ButtonDisabled == variant = "real" /\ ~modelsLoaded

\* The Start/Stop button: onClick={() => setIsRecognizing(!isRecognizing)}.
\* A disabled button delivers no click.  The <Webcam> is rendered only while
\* isRecognizing; `v` says whether its video element is there after a start.
Click(v) ==
    IF ButtonDisabled
    THEN /\ lastOp' = Op("click_disabled")
         /\ UNCHANGED <<variant, isRecognizing, recognitions, modelsLoaded, loadModels,
                        registeredFaces, video, timers, interval, inflight, nextTick>>
    ELSE /\ isRecognizing' = ~isRecognizing
         /\ RunEffect(~isRecognizing, modelsLoaded, registeredFaces)
         /\ video' = IF isRecognizing THEN FALSE ELSE v
         /\ lastOp' = Op(IF isRecognizing THEN "stop" ELSE "start")
         /\ UNCHANGED <<variant, modelsLoaded, loadModels, registeredFaces, inflight, nextTick>>

\* useQuery delivers new data (first load, refetch): registeredFaces changes,
\* and with it performRecognition (real) or the dependency array (simulated),
\* so the effect runs again
RefreshRegisteredFaces(rows) ==
    /\ registeredFaces # Defined(rows)
    /\ registeredFaces' = Defined(rows)
    /\ RunEffect(isRecognizing, modelsLoaded, Defined(rows))
    /\ lastOp' = Op("refresh")
    /\ UNCHANGED <<variant, isRecognizing, modelsLoaded, loadModels, video, inflight, nextTick>>

----------------------------------------------------------------------------
(* Operations of the real revision *)

\* loadModels(): Promise.all resolved, setModelsLoaded(true)
LoadModelsResolve ==
    /\ variant = "real"
    /\ loadModels = "pending"
    /\ loadModels' = "settled"
    /\ modelsLoaded' = TRUE
    /\ RunEffect(isRecognizing, TRUE, registeredFaces)
    /\ lastOp' = Op("models_loaded")
    /\ UNCHANGED <<variant, isRecognizing, registeredFaces, video, inflight, nextTick>>

\* loadModels(): Promise.all rejected, the catch logs
LoadModelsReject ==
    /\ variant = "real"
    /\ loadModels = "pending"
    /\ loadModels' = "settled"
    /\ lastOp' = Op("models_failed")
    /\ UNCHANGED <<variant, isRecognizing, recognitions, modelsLoaded, registeredFaces,
                   video, timers, interval, inflight, nextTick>>

EarlyReturnClears(list) == <<>>

\* the published list after one of the two early returns of performRecognition
EarlyReturn(list) == list

CatchBlockStops(list, isRec) == [recognitions |-> list, isRecognizing |-> FALSE]
CatchBlockClears(list, isRec) == [recognitions |-> <<>>, isRecognizing |-> isRec]

\* the catch block of performRecognition: console.error, nothing else
CatchBlock(list, isRec) == [recognitions |-> list, isRecognizing |-> isRec]

\* if (!webcamRef.current?.video || !modelsLoaded || !registeredFaces) return;
\* modelsLoaded and registeredFaces are the ones the callback closed over
FirstGuard(t) == ~video \/ ~t.modelsLoaded \/ ~t.registeredFaces.defined

KnownFacesAtResolve(p, current) == getKnownFaceDescriptors(current)

\* const knownFaces = getKnownFaceDescriptors() runs before the await: the
\* loops after the await compare against that array, whatever registeredFaces
\* (current) has become
KnownFacesOf(p, current) == p.knownFaces

\* A timer fires: performRecognition runs up to its await.
TimerFire(t) ==
    /\ variant = "real"
    /\ nextTick <= MaxTicks
    /\ nextTick' = nextTick + 1
    /\ LET knownFaces == getKnownFaceDescriptors(t.registeredFaces) IN
       IF FirstGuard(t) \/ Len(knownFaces) = 0
       THEN /\ recognitions' = EarlyReturn(recognitions)
            /\ inflight' = inflight
            /\ lastOp' = TickOp("tick_skipped", nextTick, <<>>, knownFaces, registeredFaces)
       ELSE /\ recognitions' = recognitions
            /\ inflight' = inflight \cup
                   { [tick |-> nextTick, knownFaces |-> knownFaces, startedWith |-> registeredFaces] }
            /\ lastOp' = TickOp("tick_started", nextTick, <<>>, knownFaces, registeredFaces)
    /\ UNCHANGED <<variant, isRecognizing, modelsLoaded, loadModels, registeredFaces,
                   video, timers, interval>>

\* detectAllFaces(...) resolves with detections d: the loops run and
\* setRecognitions(newRecognitions) publishes
DetectionResolve(p, d) ==
    /\ inflight' = inflight \ {p}
    /\ recognitions' = Publish(recognitions, NewRecognitions(d, KnownFacesOf(p, registeredFaces)))
    /\ lastOp' = TickOp("tick_published", p.tick, d, KnownFacesOf(p, registeredFaces), p.startedWith)
    /\ UNCHANGED <<variant, isRecognizing, modelsLoaded, loadModels, registeredFaces,
                   video, timers, interval, nextTick>>

\* detectAllFaces(...) rejects: the catch block runs
DetectionReject(p) ==
    /\ inflight' = inflight \ {p}
    /\ recognitions' = CatchBlock(recognitions, isRecognizing).recognitions
    /\ isRecognizing' = CatchBlock(recognitions, isRecognizing).isRecognizing
    /\ lastOp' = TickOp("tick_failed", p.tick, <<>>, p.knownFaces, p.startedWith)
    /\ UNCHANGED <<variant, modelsLoaded, loadModels, registeredFaces,
                   video, timers, interval, nextTick>>

----------------------------------------------------------------------------
(* Operations of the simulated revision *)

\* 0.8 + Math.random() * 0.2, in tenths
SimConfidences == {8, 9}
\* Math.random() * 400 + 50 and Math.random() * 300 + 50
SimXs == {50}
SimYs == {50}

\* the entries one iteration of the loop may push, given the rows
SimEntries(rows) ==
    { [name |-> rows[k].name, confidence |-> c, x |-> x, y |-> y,
       width |-> SimWidth, height |-> SimHeight] :
        k \in 1..Len(rows), c \in SimConfidences, x \in SimXs, y \in SimYs }

MockRecognitionsPerFace(rows, numFaces) == [1..numFaces -> SimEntries(rows)]

\* the lists simulateRecognition may build when Math.random gives numFaces
MockRecognitions(rows, numFaces) ==
    [1..Min(numFaces, Len(rows)) -> SimEntries(rows)]

\* A timer fires: simulateRecognition() runs to its end.
SimTimerFire(t) ==
    /\ variant = "simulated"
    /\ nextTick <= MaxTicks
    /\ nextTick' = nextTick + 1
    /\ IF ~t.registeredFaces.defined \/ Len(t.registeredFaces.rows) = 0
       THEN /\ recognitions' = recognitions
            /\ lastOp' = TickOp("tick_skipped", nextTick, <<>>, <<>>, registeredFaces)
       ELSE \E numFaces \in 1..SimMaxFaces :
            \E mockRecognitions \in MockRecognitions(t.registeredFaces.rows, numFaces) :
                /\ recognitions' = mockRecognitions
                /\ lastOp' = TickOp("tick_published", nextTick, <<>>, <<>>, registeredFaces)
    /\ UNCHANGED <<variant, isRecognizing, modelsLoaded, loadModels, registeredFaces,
                   video, timers, interval, inflight>>

----------------------------------------------------------------------------

Next ==
    \/ (\E v \in BOOLEAN : Click(v)) /\ UNCHANGED notLive
    \/ (\E rows \in RegistryStates : RefreshRegisteredFaces(rows)) /\ UNCHANGED notLive
    \/ LoadModelsResolve /\ UNCHANGED notLive
    \/ LoadModelsReject /\ UNCHANGED notLive
    \/ (\E t \in timers : TimerFire(t)) /\ UNCHANGED notLive
    \/ (\E p \in inflight : \E d \in DetectionResults : DetectionResolve(p, d))
          /\ UNCHANGED notLive
    \/ (\E p \in inflight : DetectionReject(p)) /\ UNCHANGED notLive
    \/ (\E t \in timers : SimTimerFire(t)) /\ UNCHANGED notLive

Spec == Init /\ [][Next]_vars

----------------------------------------------------------------------------
(* One face against one knownFaces array: lines 317-327 of performRecognition *)

\* the arrays getKnownFaceDescriptors can return: any rows in any order
RECURSIVE Arrangements(_)
Arrangements(rows) ==
    {<<>>} \cup UNION { { <<r>> \o a : a \in Arrangements(rows \ {r}) } : r \in rows }

\* the live component is mounted and idle
LiveIdle == LiveInit /\ variant = "real"

MatchInit ==
    /\ LiveIdle
    /\ ChatIdle
    /\ RegIdle
    /\ CodecIdle
    /\ OthersIdle
    /\ mDescriptor \in { <<k, 0>> : k \in 0..MaxCoord }
    /\ mKnownFaces \in { getKnownFaceDescriptors(Defined(a)) : a \in Arrangements({Alice, Bob, Carol}) }
    /\ mDistances = <<>>
    /\ mConfidences = <<>>
    /\ mBestMatch = [name |-> "Unknown", confidence |-> 0]
    /\ mPc = "input"

\* const distance = ...; const confidence = ...; for every known face
MatchCompare ==
    /\ mPc = "input"
    /\ mDistances' = [i \in 1..Len(mKnownFaces) |->
                        euclideanDistance(mDescriptor, mKnownFaces[i].descriptor)]
    /\ mConfidences' = [i \in 1..Len(mKnownFaces) |->
                        Confidence(euclideanDistance(mDescriptor, mKnownFaces[i].descriptor))]
    /\ mPc' = "compared"
    /\ UNCHANGED notMatch
    /\ UNCHANGED <<mDescriptor, mKnownFaces, mBestMatch>>

\* the inner loop run to its end
MatchSelect ==
    /\ mPc = "compared"
    /\ mBestMatch' = BestMatch(mDescriptor, mKnownFaces)
    /\ mPc' = "selected"
    /\ UNCHANGED notMatch
    /\ UNCHANGED <<mDescriptor, mKnownFaces, mDistances, mConfidences>>

MatchNext == MatchCompare \/ MatchSelect

SpecMatch == MatchInit /\ [][MatchNext]_vars

----------------------------------------------------------------------------
(* The ChatBot component.  A string is a sequence of characters. *)

UpperCase == <<"A", "B", "C", "D", "E", "F", "G", "H", "I", "J", "K", "L", "M",
               "N", "O", "P", "Q", "R", "S", "T", "U", "V", "W", "X", "Y", "Z">>
LowerCase == <<"a", "b", "c", "d", "e", "f", "g", "h", "i", "j", "k", "l", "m",
               "n", "o", "p", "q", "r", "s", "t", "u", "v", "w", "x", "y", "z">>

\* String.prototype.toLowerCase
toLowerCase(str) ==
    [i \in 1..Len(str) |->
        IF \E k \in 1..Len(UpperCase) : UpperCase[k] = str[i]
        THEN LowerCase[CHOOSE k \in 1..Len(UpperCase) : UpperCase[k] = str[i]]
        ELSE str[i]]

\* String.prototype.includes: sub occurs in str as a run of characters
includes(str, sub) ==
    \E i \in 0..(Len(str) - Len(sub)) : SubSeq(str, i + 1, i + Len(sub)) = sub

\* String.prototype.trim
RECURSIVE trimStart(_)
trimStart(str) ==
    IF str # <<>> /\ Head(str) = " " THEN trimStart(Tail(str)) ELSE str
RECURSIVE trimEnd(_)
trimEnd(str) ==
    IF str # <<>> /\ str[Len(str)] = " " THEN trimEnd(SubSeq(str, 1, Len(str) - 1)) ELSE str
trim(str) == trimEnd(trimStart(str))

\* the words generateResponse looks for
HowMany ==
    <<"h", "o", "w", " ", "m", "a", "n", "y">>
Count == <<"c", "o", "u", "n", "t">>
Last == <<"l", "a", "s", "t">>
Recent == <<"r", "e", "c", "e", "n", "t">>
Latest == <<"l", "a", "t", "e", "s", "t">>
Who == <<"w", "h", "o">>
List == <<"l", "i", "s", "t">>
All == <<"a", "l", "l">>
When == <<"w", "h", "e", "n">>
Time == <<"t", "i", "m", "e">>

\* created_at is a count of half days; toLocaleDateString gives the day and
\* toLocaleTimeString the part of the day
HalfDaysPerDay == 2
toLocaleDateString(created_at) == created_at \div HalfDaysPerDay
toLocaleTimeString(created_at) == created_at % HalfDaysPerDay

\* what a response says about one row
NameDateTime(face) ==
    [name |-> face.name, date |-> toLocaleDateString(face.created_at),
     time |-> toLocaleTimeString(face.created_at)]
NameDate(face) ==
    [name |-> face.name, date |-> toLocaleDateString(face.created_at), time |-> -1]
NameOnly(face) == [name |-> face.name, date |-> -1, time |-> -1]

latestOldest(faces) == faces[Len(faces)]

\* const latest = registeredFaces[0]
latest(faces) == faces[1]

\* registeredFaces.find(face => lowerQuery.includes(face.name.toLowerCase())):
\* the index of the first such row, 0 when there is none
nameMatch(lowerQuery, faces) ==
    LET hits == { i \in 1..Len(faces) : includes(lowerQuery, toLowerCase(faces[i].name)) } IN
    IF hits = {} THEN 0 ELSE CHOOSE i \in hits : \A j \in hits : i <= j

\* generateResponse(query) with the registeredFaces of the render
generateResponse(query, faces) ==
    LET lowerQuery == toLowerCase(query)
        rows == faces.rows
    IN  IF ~faces.defined \/ Len(rows) = 0
            THEN [kind |-> "no_faces", count |-> 0, people |-> <<>>]
        ELSE IF includes(lowerQuery, HowMany) \/ includes(lowerQuery, Count)
            THEN [kind |-> "count", count |-> Len(rows), people |-> <<>>]
        ELSE IF \/ includes(lowerQuery, Last) \/ includes(lowerQuery, Recent)
                \/ includes(lowerQuery, Latest)
            THEN [kind |-> "latest", count |-> 0, people |-> << NameDateTime(latest(rows)) >>]
        ELSE IF nameMatch(lowerQuery, rows) # 0
            THEN [kind |-> "person", count |-> 0,
                  people |-> << NameDateTime(rows[nameMatch(lowerQuery, rows)]) >>]
        ELSE IF \/ includes(lowerQuery, Who) \/ includes(lowerQuery, List)
                \/ includes(lowerQuery, All)
            THEN [kind |-> "list", count |-> 0,
                  people |-> [i \in 1..Len(rows) |-> NameOnly(rows[i])]]
        ELSE IF includes(lowerQuery, When) \/ includes(lowerQuery, Time)
            THEN [kind |-> "times", count |-> 0,
                  people |-> [i \in 1..Len(rows) |-> NameDate(rows[i])]]
        ELSE [kind |-> "default", count |-> Len(rows), people |-> <<>>]

\* Registered names
Ann == <<"A", "n", "n">>
Anna == <<"A", "n", "n", "a">>
Alastair == <<"A", "l", "a", "s", "t", "a", "i", "r">>
Names == {Ann, Anna, Alastair}

ChatRow(name, created_at) == [name |-> name, created_at |-> created_at]

\* results of the face_registrations query, created_at descending
ChatRegistryStates ==
    { <<>>,
      << ChatRow(Anna, 3) >>,
      << ChatRow(Ann, 5), ChatRow(Anna, 3) >>,
      << ChatRow(Anna, 7), ChatRow(Ann, 5) >>,
      << ChatRow(Anna, 7), ChatRow(Alastair, 2) >>,
      << ChatRow(Alastair, 8), ChatRow(Anna, 7) >> }

\* What the user types
\* "Who was the last person registered?"
LastPersonQuestion ==
    <<"W", "h", "o", " ", "w", "a", "s", " ", "t", "h", "e", " ", "l", "a",
      "s", "t", " ", "p", "e", "r", "s", "o", "n", " ", "r", "e", "g", "i",
      "s", "t", "e", "r", "e", "d", "?">>
\* "When was " + name + " registered?"
WhenWas(name) ==
    <<"W", "h", "e", "n", " ", "w", "a", "s", " ">> \o name
        \o <<" ", "r", "e", "g", "i", "s", "t", "e", "r", "e", "d", "?">>
\* "How many people are currently registered?"
HowManyQuestion ==
    <<"H", "o", "w", " ", "m", "a", "n", "y", " ", "p", "e", "o", "p", "l",
      "e", " ", "a", "r", "e", " ", "c", "u", "r", "r", "e", "n", "t", "l",
      "y", " ", "r", "e", "g", "i", "s", "t", "e", "r", "e", "d", "?">>
\* "List all registered people"
ListQuestion ==
    <<"L", "i", "s", "t", " ", "a", "l", "l", " ", "r", "e", "g", "i", "s",
      "t", "e", "r", "e", "d", " ", "p", "e", "o", "p", "l", "e">>
\* "What time?"
TimeQuestion == <<"W", "h", "a", "t", " ", "t", "i", "m", "e", "?">>
\* "Hello"
Hello == <<"H", "e", "l", "l", "o">>
Blank == <<" ", " ">>

Queries ==
    {LastPersonQuestion, HowManyQuestion, ListQuestion, TimeQuestion, Hello, Blank}
        \cup { WhenWas(n) : n \in Names }

\* the number of user messages in the conversation
Sent(list) == Cardinality({ i \in 1..Len(list) : list[i].type = "user" })

\* useQuery delivers a result
ChatRefresh(rows) ==
    /\ chatRegisteredFaces' = Defined(rows)
    /\ UNCHANGED <<messages, inputMessage, isLoading, pendingSend, chatError>>

\* onChange of the input, which is disabled while isLoading
SetInputMessage(text) ==
    /\ ~isLoading
    /\ inputMessage' = text
    /\ UNCHANGED <<chatRegisteredFaces, messages, isLoading, pendingSend, chatError>>

\* handleSendMessage up to the await of the insert (button or Enter key);
\* with a blank input it returns at once
handleSendMessage ==
    /\ ~isLoading
    /\ IF trim(inputMessage) = <<>>
       THEN UNCHANGED chatVars
       ELSE /\ Len(messages) < MaxMessages
            /\ messages' = Append(messages, UserMessage(inputMessage))
            /\ inputMessage' = <<>>
            /\ isLoading' = TRUE
            /\ pendingSend' = [active |-> TRUE, query |-> inputMessage,
                               response |-> generateResponse(inputMessage, chatRegisteredFaces),
                               askedWith |-> chatRegisteredFaces]
            /\ UNCHANGED <<chatRegisteredFaces, chatError>>

\* the insert settles: the bot message is appended
InsertResolve ==
    /\ pendingSend.active
    /\ messages' = Append(messages, BotMessage(pendingSend.response))
    /\ isLoading' = FALSE
    /\ pendingSend' = NoSend
    /\ UNCHANGED <<chatRegisteredFaces, inputMessage, chatError>>

\* the insert throws: catch shows the toast, finally clears isLoading
InsertReject ==
    /\ pendingSend.active
    /\ chatError' = TRUE
    /\ isLoading' = FALSE
    /\ pendingSend' = NoSend
    /\ UNCHANGED <<chatRegisteredFaces, messages, inputMessage>>

ChatInit == LiveIdle /\ MatchIdle /\ ChatIdle /\ RegIdle /\ CodecIdle /\ OthersIdle

ChatNext ==
    \/ (\E rows \in ChatRegistryStates : ChatRefresh(rows)) /\ UNCHANGED notChat
    \/ (\E text \in Queries : SetInputMessage(text)) /\ UNCHANGED notChat
    \/ handleSendMessage /\ UNCHANGED notChat
    \/ InsertResolve /\ UNCHANGED notChat
    \/ InsertReject /\ UNCHANGED notChat

SpecChat == ChatInit /\ [][ChatNext]_vars

----------------------------------------------------------------------------
(* The FaceRegistration component *)

\* names typed into the name input
RegNames == {"", "Ann", "Bob"}

\* the descriptor face-api.js computes from screenshot number `photo`
DescriptorOf(photo) == <<3 * photo, 0 - photo>>

\* loadModels(): Promise.all resolved, setModelsLoaded(true)
RegLoadModels ==
    /\ ~regModelsLoaded
    /\ regModelsLoaded' = TRUE
    /\ regOp' = RegOp("models_loaded")
    /\ UNCHANGED <<regName, isCapturing, capturedImage, isRegistering, faceDescriptor,
                   detecting, inserting, regTable, nextPhoto>>

\* onChange of the name input
setName(text) ==
    /\ regName' = text
    /\ regOp' = RegOp("set_name")
    /\ UNCHANGED <<isCapturing, capturedImage, isRegistering, regModelsLoaded, faceDescriptor,
                   detecting, inserting, regTable, nextPhoto>>

\* Start Camera / Stop Camera, disabled until the models are loaded
ToggleCamera ==
    /\ regModelsLoaded
    /\ isCapturing' = ~isCapturing
    /\ regOp' = RegOp("toggle_camera")
    /\ UNCHANGED <<regName, capturedImage, isRegistering, regModelsLoaded, faceDescriptor,
                   detecting, inserting, regTable, nextPhoto>>

\* Capture & Detect (shown while isCapturing): capture() up to img.src =
\* imageSrc.  getScreenshot() gives null while the webcam is not ready.
capture(ready) ==
    /\ isCapturing
    /\ regModelsLoaded
    /\ IF ready
       THEN /\ nextPhoto <= MaxPhotos
            /\ capturedImage' = nextPhoto
            /\ isCapturing' = FALSE
            /\ detecting' = detecting \cup {nextPhoto}
            /\ nextPhoto' = nextPhoto + 1
            /\ regOp' = RegOp("capture")
       ELSE /\ regOp' = RegOp("capture_no_screenshot")
            /\ UNCHANGED <<capturedImage, isCapturing, detecting, nextPhoto>>
    /\ UNCHANGED <<regName, isRegistering, regModelsLoaded, faceDescriptor, inserting, regTable>>

\* img.onload of a capture: detectFace found a face, setFaceDescriptor(descriptor)
DetectFaceResolve(photo) ==
    /\ photo \in detecting
    /\ detecting' = detecting \ {photo}
    /\ faceDescriptor' = Float32Array(DescriptorOf(photo))
    /\ regOp' = RegOp("face_detected")
    /\ UNCHANGED <<regName, isCapturing, capturedImage, isRegistering, regModelsLoaded,
                   inserting, regTable, nextPhoto>>

\* img.onload of a capture: detectFace throws ('No face detected'), the
\* catch block shows a toast
DetectFaceReject(photo) ==
    /\ photo \in detecting
    /\ detecting' = detecting \ {photo}
    /\ regOp' = RegOp("face_detection_failed")
    /\ UNCHANGED <<regName, isCapturing, capturedImage, isRegistering, regModelsLoaded,
                   faceDescriptor, inserting, regTable, nextPhoto>>

MissingWithoutDescriptor(n, image, descriptor) == n = "" \/ image = 0

\* !name || !capturedImage || !faceDescriptor: the guard of handleRegister,
\* and with isRegistering the disabled condition of the Register Face button
Missing(n, image, descriptor) == n = "" \/ image = 0 \/ ~descriptor.present

CatchRegisterResets(n, image, descriptor) ==
    [name |-> "", capturedImage |-> 0, faceDescriptor |-> NoDescriptor]

\* what the catch block of handleRegister leaves of the form: all of it
CatchRegister(n, image, descriptor) ==
    [name |-> n, capturedImage |-> image, faceDescriptor |-> descriptor]

\* Register Face: a disabled button delivers no click; otherwise
\* handleRegister runs up to the await of the insert
ClickRegister ==
    IF Missing(regName, capturedImage, faceDescriptor) \/ isRegistering
    THEN /\ regOp' = RegOp("register_disabled")
         /\ UNCHANGED <<regName, isCapturing, capturedImage, isRegistering, regModelsLoaded,
                        faceDescriptor, detecting, inserting, regTable, nextPhoto>>
    ELSE IF Missing(regName, capturedImage, faceDescriptor)
    THEN /\ regOp' = RegOp("register_missing")
         /\ UNCHANGED <<regName, isCapturing, capturedImage, isRegistering, regModelsLoaded,
                        faceDescriptor, detecting, inserting, regTable, nextPhoto>>
    ELSE /\ Len(regTable) < MaxRegistrations
         /\ isRegistering' = TRUE
         /\ inserting' = [active |-> TRUE, name |-> regName,
                          face_encoding |-> Join(faceDescriptor.values)]
         /\ regOp' = RegOp("register")
         /\ UNCHANGED <<regName, isCapturing, capturedImage, regModelsLoaded, faceDescriptor,
                        detecting, regTable, nextPhoto>>

\* the insert succeeded: the row is stored, the form is reset, finally
InsertSucceeds ==
    /\ inserting.active
    /\ regTable' = Append(regTable, [name |-> inserting.name,
                                     face_encoding |-> inserting.face_encoding])
    /\ regName' = ""
    /\ capturedImage' = 0
    /\ faceDescriptor' = NoDescriptor
    /\ isRegistering' = FALSE
    /\ inserting' = NoInsert
    /\ regOp' = RegOp("insert_succeeded")
    /\ UNCHANGED <<isCapturing, regModelsLoaded, detecting, nextPhoto>>

\* the insert returned an error: throw, catch, finally
InsertFails ==
    /\ inserting.active
    /\ LET kept == CatchRegister(regName, capturedImage, faceDescriptor) IN
       /\ regName' = kept.name
       /\ capturedImage' = kept.capturedImage
       /\ faceDescriptor' = kept.faceDescriptor
    /\ isRegistering' = FALSE
    /\ inserting' = NoInsert
    /\ regOp' = RegOp("insert_failed")
    /\ UNCHANGED <<isCapturing, regModelsLoaded, detecting, regTable, nextPhoto>>

RegInit == LiveIdle /\ MatchIdle /\ ChatIdle /\ RegIdle /\ CodecIdle /\ OthersIdle

RegNext ==
    \/ RegLoadModels /\ UNCHANGED notReg
    \/ (\E text \in RegNames : setName(text)) /\ UNCHANGED notReg
    \/ ToggleCamera /\ UNCHANGED notReg
    \/ (\E ready \in BOOLEAN : capture(ready)) /\ UNCHANGED notReg
    \/ (\E photo \in detecting : DetectFaceResolve(photo)) /\ UNCHANGED notReg
    \/ (\E photo \in detecting : DetectFaceReject(photo)) /\ UNCHANGED notReg
    \/ ClickRegister /\ UNCHANGED notReg
    \/ InsertSucceeds /\ UNCHANGED notReg
    \/ InsertFails /\ UNCHANGED notReg

SpecReg == RegInit /\ [][RegNext]_vars

----------------------------------------------------------------------------
(* A descriptor written by handleRegister and read by getKnownFaceDescriptors *)

\* the descriptors of 1..MaxDims values in -MaxValue..MaxValue
Descriptors == UNION { [1..n -> (0 - MaxValue)..MaxValue] : n \in 1..MaxDims }

CodecInit ==
    /\ LiveIdle /\ MatchIdle /\ ChatIdle /\ RegIdle /\ OthersIdle
    /\ cDescriptor \in Descriptors
    /\ cEncoding = <<>>
    /\ cParsed = <<>>
    /\ cPc = "input"

\* const faceEncoding = Array.from(faceDescriptor).join(',')
CodecStore ==
    /\ cPc = "input"
    /\ cEncoding' = Join(cDescriptor)
    /\ cPc' = "stored"
    /\ UNCHANGED <<cDescriptor, cParsed>>

\* new Float32Array(face.face_encoding.split(',').map(Number))
CodecParse ==
    /\ cPc = "stored"
    /\ cParsed' = getKnownFaceDescriptors(
                      Defined(<<[name |-> "Ann", face_encoding |-> cEncoding]>>))[1].descriptor
    /\ cPc' = "parsed"
    /\ UNCHANGED <<cDescriptor, cEncoding>>

CodecNext ==
    \/ CodecStore /\ UNCHANGED notCodec
    \/ CodecParse /\ UNCHANGED notCodec

SpecCodec == CodecInit /\ [][CodecNext]_vars

----------------------------------------------------------------------------
(* The ChatBot component of Dashboard.tsx, which calls the ai-chat function *)

\* most messages the user sends to the ai-chat function in one behaviour
MaxAiSends == 2

\* what the user types
AiQueries == {Blank, Hello, LastPersonQuestion, HowManyQuestion, WhenWas(Anna)}

\* what supabase.functions.invoke('ai-chat') resolves to: {data, error}
InvokeResults ==
    { [error |-> TRUE, data |-> FALSE, response |-> ""],       \* error set
      [error |-> FALSE, data |-> FALSE, response |-> ""],      \* data is null
      [error |-> FALSE, data |-> TRUE, response |-> ""],       \* data.response empty
      [error |-> FALSE, data |-> TRUE, response |-> "text"] }  \* data.response

\* onChange of the input, which is disabled while isLoading
AiSetInputMessage(text) ==
    /\ ~aiIsLoading
    /\ aiInputMessage' = text
    /\ UNCHANGED <<aiMessages, aiIsLoading, aiPending, aiToast>>

\* handleSendMessage up to the await of functions.invoke (button or Enter
\* key); with a blank input it returns at once
AiHandleSendMessage ==
    /\ ~aiIsLoading
    /\ IF trim(aiInputMessage) = <<>>
       THEN UNCHANGED aiVars
       ELSE /\ Sent(aiMessages) < MaxAiSends
            /\ aiMessages' = Append(aiMessages, AiUserMessage(aiInputMessage))
            /\ aiInputMessage' = <<>>
            /\ aiIsLoading' = TRUE
            /\ aiPending' = [active |-> TRUE, query |-> aiInputMessage]
            /\ UNCHANGED aiToast

AiCatchSilent(list) == list

\* the catch block: the error message is appended
AiCatch(list) == Append(list, AiBotMessage("error_message"))

\* content: data.response || "I apologize, but I couldn't process ..."
AiContent(result) == IF result.response = "" THEN "apology" ELSE "response"

\* functions.invoke settles: the rest of the try block, or the catch block
\* (error set, or data null so that data.response throws), then finally
InvokeSettles(result) ==
    /\ aiPending.active
    /\ IF result.error \/ ~result.data
       THEN /\ aiMessages' = AiCatch(aiMessages)
            /\ aiToast' = "Chat Error"
       ELSE /\ aiMessages' = Append(aiMessages, AiBotMessage(AiContent(result)))
            /\ aiToast' = "AI Response"
    /\ aiIsLoading' = FALSE
    /\ aiPending' = AiNoSend
    /\ UNCHANGED aiInputMessage

AiInit == LiveIdle /\ MatchIdle /\ ChatIdle /\ RegIdle /\ CodecIdle /\ OthersIdle

AiSettle == (\E result \in InvokeResults : InvokeSettles(result)) /\ UNCHANGED notAi

AiNext ==
    \/ (\E text \in AiQueries : AiSetInputMessage(text)) /\ UNCHANGED notAi
    \/ AiHandleSendMessage /\ UNCHANGED notAi
    \/ AiSettle

\* the request of functions.invoke always settles
SpecAi == AiInit /\ [][AiNext]_vars /\ WF_vars(AiSettle)

----------------------------------------------------------------------------
(* The ai-chat edge function (README.md) *)

\* most requests the function receives in one behaviour
MaxRequests == 2

FnQueries == {"who", "how many"}
FnAnswers == {"text", "other text"}

\* contextData / contextString: the number of rows and, for each, name and
\* registration date and time
ContextOf(rows) == [count |-> Len(rows), people |-> [i \in 1..Len(rows) |-> NameDateTime(rows[i])]]

\* the Response of the catch block
ErrorResponse == [status |-> 500, kind |-> "error", response |-> ""]
\* new Response(JSON.stringify({ response: aiResponse })): status 200
OkResponse(aiResponse) == [status |-> 200, kind |-> "response", response |-> aiResponse]

Fail(op) ==
    /\ fnResponse' = ErrorResponse
    /\ fnPc' = "done"
    /\ fnOp' = op
    /\ UNCHANGED <<fnQuery, fnContext, fnAiResponse, fnStored, fnApiKey>>

\* a request arrives: OPTIONS is answered at once; otherwise req.json() is
\* awaited and the face_registrations query is issued
FnReceive(method, body) ==
    /\ fnPc \in {"idle", "done"}
    /\ fnHandled < MaxRequests
    /\ fnHandled' = fnHandled + 1
    /\ IF method = "OPTIONS"
       THEN /\ fnResponse' = [status |-> 200, kind |-> "preflight", response |-> ""]
            /\ fnPc' = "done"
            /\ fnOp' = "preflight"
            /\ UNCHANGED <<fnQuery, fnContext, fnAiResponse, fnStored, fnApiKey>>
       ELSE IF body = "malformed"
       THEN Fail("bad_body")
       ELSE /\ fnQuery' = body
            /\ fnPc' = "parsed"
            /\ fnResponse' = NoFnResponse
            /\ fnOp' = "parsed"
            /\ UNCHANGED <<fnContext, fnAiResponse, fnStored, fnApiKey>>

\* the face_registrations query returns: faceError is thrown, or the context
\* is built, the API key is read and the model is called
FnFaceData(ok, rows) ==
    /\ fnPc = "parsed"
    /\ UNCHANGED fnHandled
    /\ IF ~ok THEN Fail("face_error")
       ELSE IF ~fnApiKey THEN Fail("no_api_key")
       ELSE /\ fnContext' = ContextOf(rows)
            /\ fnPc' = "called"
            /\ fnOp' = "called"
            /\ UNCHANGED <<fnQuery, fnAiResponse, fnResponse, fnStored, fnApiKey>>

\* the fetch of the model settles: it rejects, openAIResponse.ok is false,
\* the body is not the JSON expected, or aiResponse is read and the insert
\* into chat_messages is issued
FnModelResponds(outcome, answer) ==
    /\ fnPc = "called"
    /\ UNCHANGED fnHandled
    /\ IF outcome # "ok" THEN Fail(outcome)
       ELSE /\ fnAiResponse' = answer
            /\ fnPc' = "storing"
            /\ fnOp' = "model_ok"
            /\ UNCHANGED <<fnQuery, fnContext, fnResponse, fnStored, fnApiKey>>

InsertErrorFails(aiResponse) == ErrorResponse

\* if (chatError) console.error(...): the response is returned all the same
InsertErrorResponse(aiResponse) == OkResponse(aiResponse)

\* the insert returns {error: chatError}
FnInsertSettles(stored) ==
    /\ fnPc = "storing"
    /\ UNCHANGED fnHandled
    /\ IF stored
       THEN /\ fnStored' = Append(fnStored, [query |-> fnQuery, response |-> fnAiResponse])
            /\ fnResponse' = OkResponse(fnAiResponse)
            /\ fnOp' = "stored"
       ELSE /\ fnStored' = fnStored
            /\ fnResponse' = InsertErrorResponse(fnAiResponse)
            /\ fnOp' = "store_failed"
    /\ fnPc' = "done"
    /\ UNCHANGED <<fnQuery, fnContext, fnAiResponse, fnApiKey>>

FnInit == LiveIdle /\ MatchIdle /\ ChatIdle /\ RegIdle /\ CodecIdle /\ AiIdle /\ FnIdle

FnNext ==
    \/ (\E method \in {"OPTIONS", "POST"} : \E body \in FnQueries \cup {"malformed"} :
            FnReceive(method, body)) /\ UNCHANGED notFn
    \/ (\E ok \in BOOLEAN : \E rows \in ChatRegistryStates : FnFaceData(ok, rows))
            /\ UNCHANGED notFn
    \/ (\E outcome \in {"ok", "fetch_rejected", "not_ok", "bad_json"} :
            \E answer \in FnAnswers : FnModelResponds(outcome, answer)) /\ UNCHANGED notFn
    \/ (\E stored \in BOOLEAN : FnInsertSettles(stored)) /\ UNCHANGED notFn

SpecFn == FnInit /\ [][FnNext]_vars

----------------------------------------------------------------------------
(* Claims *)

TimerFireAny == \E t \in timers : TimerFire(t)

\* list is made of entries for detections of d, in the order of d, at most
\* one per detection
FromDetections(list, d) ==
    \E f \in [1..Len(list) -> 1..Len(d)] :
        /\ \A i, j \in 1..Len(list) : i < j => f[i] < f[j]
        /\ \A i \in 1..Len(list) :
              /\ list[i].x = d[f[i]].box.x
              /\ list[i].y = d[f[i]].box.y
              /\ list[i].width = d[f[i]].box.width
              /\ list[i].height = d[f[i]].box.height

\* C1 (as claimed): whenever recognition is stopped (Idle) the published
\* detection list is empty, also when a tick's detection call completes
\* after the stop.
C1_IdleListEmpty == ~isRecognizing => recognitions = <<>>

\* C2 (as claimed): at most one tick is in flight (suspended at its
\* detection call) at any time.
C2_AtMostOneTickInFlight == Cardinality(inflight) <= 1

\* C3: in every reachable state a sampling timer exists if and only if the
\* controller is Sampling (isRecognizing).
C3_TimerIffSampling == (timers # {}) <=> isRecognizing

C3_Witness == isRecognizing /\ Cardinality(timers) = 1 /\ lastOp.op = "refresh"

\* C4: after any sequence of start and stop requests, model-load completion
\* and refreshes at most one sampling timer is active, and a start leaves
\* exactly one.
C4_AtMostOneTimer ==
    /\ Cardinality(timers) <= 1
    /\ lastOp.op = "start" => Cardinality(timers) = 1

C4_Witness == lastOp.op = "start" /\ nextTick > 1 /\ Cardinality(timers) = 1

\* C5: the step that stops recognition moves Sampling to Idle, cancels the
\* timer and empties the published list, all in that step; a stop is only
\* ever taken in Sampling.
C5_StopClears ==
    [][ /\ (isRecognizing /\ ~isRecognizing') =>
              (lastOp'.op = "stop" /\ timers' = {} /\ recognitions' = <<>>)
        /\ lastOp'.op = "stop" => (isRecognizing /\ ~isRecognizing') ]_vars

C5_Witness == lastOp.op = "stop" /\ inflight # {} /\ recognitions = <<>> /\ timers = {}

\* C6: while the face models are not loaded (real revision) a start request
\* schedules no timer and the controller is not Sampling; a start has only
\* succeeded with the models loaded.
C6_NotReadyNoSampling ==
    variant = "real" =>
        /\ ~modelsLoaded => (~isRecognizing /\ timers = {})
        /\ lastOp.op = "start" => modelsLoaded

C6_Witness ==
    variant = "real" /\ ~modelsLoaded /\ lastOp.op = "click_disabled" /\ loadModels = "settled"

\* C7: a tick that returns early (no video, models not ready, no known
\* faces) leaves the published list as it was and leaves the loop running:
\* the state, the timer and the ticks in flight are unchanged.
C7_SkipKeepsList ==
    [][ lastOp'.op = "tick_skipped" =>
            /\ recognitions' = recognitions
            /\ isRecognizing' = isRecognizing
            /\ timers' = timers
            /\ inflight' = inflight ]_vars

C7_Witness ==
    variant = "real" /\ lastOp.op = "tick_skipped" /\ recognitions # <<>> /\ timers # {}

\* C8: a detection call that throws does not end the loop: the step leaves
\* the state and the timer as they were, and while Sampling the timer can
\* fire again.
C8_FailureKeepsLoop ==
    /\ [][ lastOp'.op = "tick_failed" =>
              (isRecognizing' = isRecognizing /\ timers' = timers) ]_vars
    /\ [](lastOp.op = "tick_failed" /\ isRecognizing /\ nextTick <= MaxTicks
              => ENABLED TimerFireAny)

C8_Witness ==
    lastOp.op = "tick_failed" /\ isRecognizing /\ timers # {} /\ nextTick <= MaxTicks

\* C9 (as claimed): during any transient tick failure of performRecognition
\* consumers of the published list see an empty list.
C9_FailureShowsEmpty ==
    (variant = "real" /\ lastOp.op \in {"tick_skipped", "tick_failed"})
        => recognitions = <<>>

\* C9 (amended): a transient tick failure, an early return or a detection
\* call that throws, leaves the published list as it was before the tick.
C9_FailureKeepsList ==
    [][ lastOp'.op \in {"tick_skipped", "tick_failed"} =>
            recognitions' = recognitions ]_vars

C9_Witness == variant = "real" /\ lastOp.op = "tick_failed" /\ recognitions # <<>>

\* C10: a tick of the real revision leaves the published list as it was, or
\* replaces it by a list built only from the detections of that tick, in
\* their order, at most one entry per detection.
C10_WhollyNewList ==
    [][ (variant = "real" /\ lastOp'.op \in {"tick_skipped", "tick_started",
                                            "tick_published", "tick_failed"}) =>
            \/ recognitions' = recognitions
            \/ /\ lastOp'.op = "tick_published"
               /\ FromDetections(recognitions', lastOp'.detections) ]_vars

C10_Witness ==
    /\ variant = "real"
    /\ lastOp.op = "tick_published"
    /\ lastOp.tick = 1
    /\ nextTick > MaxTicks
    /\ Len(lastOp.detections) = 2
    /\ Len(recognitions) = 1

----------------------------------------------------------------------------
(* Claims about the match decision *)

\* the confidences of one face against the known faces, as a function of
\* the index in knownFaces
ConfidencesOf(face, known) ==
    [i \in 1..Len(known) |-> Confidence(euclideanDistance(face.descriptor, known[i].descriptor))]

\* the largest of them (0 when there is no known face)
MaxConfidenceOf(face, known) ==
    LET c == ConfidencesOf(face, known) IN
    IF Len(known) = 0 THEN 0
    ELSE CHOOSE m \in { c[i] : i \in 1..Len(known) } : \A i \in 1..Len(known) : c[i] <= m

\* the first index that reaches it
FirstBestOf(face, known) ==
    LET c == ConfidencesOf(face, known) IN
    CHOOSE i \in 1..Len(known) :
        /\ c[i] = MaxConfidenceOf(face, known)
        /\ \A j \in 1..(i - 1) : c[j] < c[i]

\* the entries with the box of detection `face`
EntriesAt(list, face) ==
    { i \in 1..Len(list) :
        /\ list[i].x = face.box.x /\ list[i].y = face.box.y
        /\ list[i].width = face.box.width /\ list[i].height = face.box.height }

PublishedByRealTick == variant = "real" /\ lastOp.op = "tick_published"

\* C11: every entry of the published list has a confidence strictly greater
\* than the threshold 0.6; a face whose best confidence is exactly 0.6 has no
\* entry.
C11_AboveThreshold ==
    /\ \A i \in 1..Len(recognitions) : recognitions[i].confidence > Threshold
    /\ PublishedByRealTick =>
          \A i \in 1..Len(lastOp.detections) :
              MaxConfidenceOf(lastOp.detections[i], lastOp.knownFaces) = Threshold
                  => EntriesAt(recognitions, lastOp.detections[i]) = {}

C11_Witness ==
    /\ PublishedByRealTick
    /\ recognitions # <<>>
    /\ \E i \in 1..Len(lastOp.detections) :
          /\ MaxConfidenceOf(lastOp.detections[i], lastOp.knownFaces) = Threshold
          /\ EntriesAt(recognitions, lastOp.detections[i]) = {}

\* C12: the identity selected for a face is one of maximum confidence among
\* those above the threshold, whatever the order of knownFaces: a known face
\* above the threshold that is strictly nearer than every other one is
\* selected at any position; with none above the threshold nothing is.
C12_BestConfidenceSelected ==
    mPc = "selected" =>
        LET above == { i \in 1..Len(mKnownFaces) : mConfidences[i] > Threshold } IN
        /\ above = {} => mBestMatch = [name |-> "Unknown", confidence |-> 0]
        /\ above # {} =>
              /\ \A i \in above : mConfidences[i] <= mBestMatch.confidence
              /\ \E i \in above : /\ mBestMatch.name = mKnownFaces[i].name
                                  /\ mBestMatch.confidence = mConfidences[i]
        /\ \A i \in above :
              (\A j \in 1..Len(mKnownFaces) : j # i => mDistances[i] < mDistances[j])
                  => mBestMatch.name = mKnownFaces[i].name

C12_Witness ==
    /\ mPc = "selected"
    /\ Len(mKnownFaces) = 2
    /\ mConfidences[1] > Threshold
    /\ mConfidences[2] > mConfidences[1]
    /\ mBestMatch.name = mKnownFaces[2].name

\* C13: when several known faces have the same maximal confidence above the
\* threshold, the first of them in the order of knownFaces is selected.
C13_FirstOfTies ==
    mPc = "selected" =>
        \A i \in 1..Len(mKnownFaces) :
            ( /\ mConfidences[i] > Threshold
              /\ \A j \in 1..Len(mKnownFaces) : mConfidences[j] <= mConfidences[i]
              /\ \A j \in 1..(i - 1) : mConfidences[j] < mConfidences[i] )
                => mBestMatch.name = mKnownFaces[i].name

C13_Witness ==
    /\ mPc = "selected"
    /\ \E i, j \in 1..Len(mKnownFaces) :
          /\ i < j
          /\ mConfidences[i] = mConfidences[j]
          /\ mConfidences[i] > Threshold
          /\ \A k \in 1..Len(mKnownFaces) : mConfidences[k] <= mConfidences[i]
          /\ mBestMatch.name = mKnownFaces[i].name

\* C14: a detected face whose best confidence against every known face is
\* at most 0.6 has no entry in the published list, and no entry carries the
\* placeholder name 'Unknown'.
C14_BelowThresholdDropped ==
    PublishedByRealTick =>
        /\ \A i \in 1..Len(lastOp.detections) :
              MaxConfidenceOf(lastOp.detections[i], lastOp.knownFaces) <= Threshold
                  => EntriesAt(recognitions, lastOp.detections[i]) = {}
        /\ \A i \in 1..Len(recognitions) : recognitions[i].name # "Unknown"

C14_Witness ==
    /\ PublishedByRealTick
    /\ Len(lastOp.detections) = 2
    /\ Len(recognitions) = 1
    /\ \E i \in 1..2 :
          /\ MaxConfidenceOf(lastOp.detections[i], lastOp.knownFaces) < Threshold
          /\ EntriesAt(recognitions, lastOp.detections[i]) = {}

\* C15: after a successful tick the published list holds, in detection
\* order, exactly one entry for each detected face that has a match above
\* the threshold, with the name of the match, its confidence and the box of
\* the face.
C15_OneEntryPerMatch ==
    PublishedByRealTick =>
        LET d == lastOp.detections
            k == lastOp.knownFaces
            matched == { i \in 1..Len(d) : MaxConfidenceOf(d[i], k) > Threshold }
        IN  /\ Len(recognitions) = Cardinality(matched)
            /\ \E f \in [1..Len(recognitions) -> matched] :
                  /\ \A a, b \in 1..Len(recognitions) : a < b => f[a] < f[b]
                  /\ \A a \in 1..Len(recognitions) :
                        recognitions[a] =
                            [name |-> k[FirstBestOf(d[f[a]], k)].name,
                             confidence |-> MaxConfidenceOf(d[f[a]], k),
                             x |-> d[f[a]].box.x, y |-> d[f[a]].box.y,
                             width |-> d[f[a]].box.width, height |-> d[f[a]].box.height]

\* known set [Alice], one face at distance 0.3: the list is [Alice, 0.7, box]
C15_Witness ==
    /\ PublishedByRealTick
    /\ Len(lastOp.knownFaces) = 1
    /\ Len(lastOp.detections) = 1
    /\ euclideanDistance(lastOp.detections[1].descriptor, lastOp.knownFaces[1].descriptor) = 3
    /\ recognitions = << [name |-> "Alice", confidence |-> 7,
                          x |-> lastOp.detections[1].box.x, y |-> lastOp.detections[1].box.y,
                          width |-> lastOp.detections[1].box.width,
                          height |-> lastOp.detections[1].box.height] >>

\* C16: for every distance d >= 0 the confidence is max(0, 1 - d): 1 - d
\* when d <= 1 and 0 when d > 1, so it lies in [0, 1].
C16_ConfidenceFormula ==
    mPc \in {"compared", "selected"} =>
        \A i \in 1..Len(mKnownFaces) :
            /\ mDistances[i] >= 0
            /\ mDistances[i] <= 10 => mConfidences[i] = 10 - mDistances[i]
            /\ mDistances[i] > 10 => mConfidences[i] = 0
            /\ mConfidences[i] \in 0..10

C16_Witness ==
    /\ mPc = "compared"
    /\ \E i, j \in 1..Len(mKnownFaces) :
          /\ mDistances[i] > 10 /\ mConfidences[i] = 0
          /\ mDistances[j] < 10 /\ mConfidences[j] = 10 - mDistances[j]

\* C17 (as claimed): whatever the outcome of a tick (skip, failure or
\* success), the state after it is Sampling with the timer scheduled, as it
\* was when the tick started.
C17_TickEndsSampling ==
    lastOp.op \in {"tick_skipped", "tick_published", "tick_failed"} =>
        (isRecognizing /\ Cardinality(timers) = 1)

\* What performRecognition itself writes: none of its steps assigns the
\* controller state or the timer, and it starts only while Sampling.
TickStepsKeepState ==
    [][ lastOp'.op \in {"tick_skipped", "tick_started", "tick_published", "tick_failed"} =>
            /\ UNCHANGED <<variant, isRecognizing, modelsLoaded, loadModels,
                           registeredFaces, video, timers, interval>>
            /\ lastOp'.op \in {"tick_skipped", "tick_started"} =>
                  (isRecognizing /\ Cardinality(timers) = 1) ]_vars

\* C18: a tick compares all its detections against the knownFaces made from
\* the registeredFaces current when it started, also when registeredFaces is
\* refreshed while its detection call is pending; no step of a tick changes
\* registeredFaces or the knownFaces of a tick in flight.
C18_OneSnapshotPerTick ==
    /\ [](\A p \in inflight : p.knownFaces = getKnownFaceDescriptors(p.startedWith))
    /\ [](PublishedByRealTick =>
             /\ lastOp.knownFaces = getKnownFaceDescriptors(lastOp.startedWith)
             /\ recognitions = NewRecognitions(lastOp.detections,
                                   getKnownFaceDescriptors(lastOp.startedWith)))
    /\ [][ lastOp'.op \in {"tick_skipped", "tick_started", "tick_published", "tick_failed"} =>
              /\ registeredFaces' = registeredFaces
              /\ \A p \in inflight' : p \in inflight \/ p.tick = lastOp'.tick ]_vars

C18_Witness ==
    /\ PublishedByRealTick
    /\ registeredFaces # lastOp.startedWith
    /\ recognitions # <<>>
    /\ recognitions # NewRecognitions(lastOp.detections, getKnownFaceDescriptors(registeredFaces))

----------------------------------------------------------------------------
(* Claims about the ChatBot *)

\* the row of `name` in a query result, 0 when it is not registered
RowOf(name, faces) ==
    IF \E i \in 1..Len(faces.rows) : faces.rows[i].name = name
    THEN CHOOSE i \in 1..Len(faces.rows) : faces.rows[i].name = name
    ELSE 0

\* C19: with at least one registered face, 'Who was the last person
\* registered?' is answered with the name of the first row of the query
\* result, which is the most recently registered person; the bot message
\* appended is that answer.
C19_LastPersonIsFirstRow ==
    /\ []( ( /\ pendingSend.active
             /\ pendingSend.query = LastPersonQuestion
             /\ pendingSend.askedWith.defined
             /\ Len(pendingSend.askedWith.rows) >= 1 ) =>
           LET rows == pendingSend.askedWith.rows IN
           /\ pendingSend.response.kind = "latest"
           /\ Len(pendingSend.response.people) = 1
           /\ pendingSend.response.people[1].name = rows[1].name
           /\ \A i \in 1..Len(rows) : rows[i].created_at <= rows[1].created_at )
    /\ [][ (pendingSend.active /\ Len(messages') > Len(messages)) =>
              messages'[Len(messages')] = BotMessage(pendingSend.response) ]_vars

C19_Witness ==
    /\ Len(messages) = 3
    /\ messages[2] = UserMessage(LastPersonQuestion)
    /\ messages[3].type = "bot"
    /\ messages[3].response.kind = "latest"
    /\ messages[3].response.people[1].name = Alastair
    /\ chatRegisteredFaces = Defined(<< ChatRow(Alastair, 8), ChatRow(Anna, 7) >>)

\* C20 (as claimed): for every registered name N, 'When was N registered?'
\* is answered with the registration date and time of N's own row, whatever
\* characters N has and whatever other names are registered.
C20_AnswersOwnDate ==
    \A n \in Names :
        ( /\ pendingSend.active
          /\ pendingSend.query = WhenWas(n)
          /\ RowOf(n, pendingSend.askedWith) # 0 ) =>
        /\ Len(pendingSend.response.people) = 1
        /\ pendingSend.response.people[1] =
              NameDateTime(pendingSend.askedWith.rows[RowOf(n, pendingSend.askedWith)])

----------------------------------------------------------------------------
(* Claims about ticks, refreshes and the simulated revision *)

\* C23 (as claimed): while Sampling, a tick that started earlier never
\* publishes over the result of a tick that started after it: of two
\* publications in a row, the second comes from the later tick.
C23_NewestTickPublished ==
    [][ ( /\ variant = "real"
          /\ lastOp.op = "tick_published"
          /\ lastOp'.op = "tick_published"
          /\ isRecognizing /\ isRecognizing' ) =>
            lastOp'.tick > lastOp.tick ]_vars

\* C24: a refresh of registeredFaces while Sampling keeps isRecognizing,
\* keeps the published list, leaves exactly one timer, a new one whose
\* callback holds the refreshed rows; every timer holds the current rows, so
\* a tick that starts after the refresh works on the refreshed rows.
C24_RefreshWhileSampling ==
    /\ [][ (lastOp'.op = "refresh" /\ isRecognizing) =>
              /\ isRecognizing'
              /\ recognitions' = recognitions
              /\ Cardinality(timers') = 1
              /\ timers' \cap timers = {}
              /\ \A t \in timers' : t.id = interval' /\ t.registeredFaces = registeredFaces' ]_vars
    /\ [](\A t \in timers : t.registeredFaces = registeredFaces)
    /\ [][ (lastOp'.op \in {"tick_started", "tick_skipped"} /\ variant = "real") =>
              lastOp'.knownFaces = getKnownFaceDescriptors(registeredFaces) ]_vars
    /\ [][ (lastOp'.op = "tick_published" /\ variant = "simulated") =>
              \A i \in 1..Len(recognitions') :
                  \E k \in 1..Len(registeredFaces.rows) :
                      recognitions'[i].name = registeredFaces.rows[k].name ]_vars

\* a refresh has arrived while Sampling, with the list of a tick published
C24_Witness ==
    /\ variant = "real"
    /\ lastOp.op = "refresh"
    /\ isRecognizing
    /\ recognitions # <<>>
    /\ Cardinality(timers) = 1
    /\ \A t \in timers : Len(t.registeredFaces.rows) = 3

\* C30: in the simulated revision a tick with n >= 1 registered faces
\* publishes between 1 and min(3, n) entries, each with the name of a
\* registered face and a confidence in [0.8, 1.0]; a tick with no registered
\* faces leaves the list as it was.
C30_SimulatedTick ==
    [][ (variant = "simulated" /\ lastOp'.op \in {"tick_published", "tick_skipped"}) =>
          LET n == IF registeredFaces.defined THEN Len(registeredFaces.rows) ELSE 0 IN
          /\ n >= 1 =>
                /\ lastOp'.op = "tick_published"
                /\ Len(recognitions') >= 1
                /\ Len(recognitions') <= 3
                /\ Len(recognitions') <= n
                /\ \A i \in 1..Len(recognitions') :
                      /\ \E k \in 1..n : recognitions'[i].name = registeredFaces.rows[k].name
                      /\ recognitions'[i].confidence >= 8
                      /\ recognitions'[i].confidence <= 10
          /\ n = 0 => (lastOp'.op = "tick_skipped" /\ recognitions' = recognitions) ]_vars

C30_Witness ==
    /\ variant = "simulated"
    /\ lastOp.op = "tick_published"
    /\ Len(registeredFaces.rows) = 2
    /\ Len(recognitions) = 2
    /\ recognitions[1].name # recognitions[2].name
    /\ recognitions[1].confidence = 8

----------------------------------------------------------------------------
(* Claims about the registration form *)

\* C21: a click on Register Face issues an insert only when the name is not
\* empty, a photo is captured and a descriptor is held; when one of the three
\* is missing the click issues no insert and leaves name, photo, descriptor
\* and isRegistering as they were.  Nothing else issues an insert.
C21_InsertNeedsAllThree ==
    [][ /\ (inserting'.active /\ ~inserting.active) =>
              /\ regOp'.op = "register"
              /\ regName # "" /\ capturedImage # 0 /\ faceDescriptor.present
              /\ inserting'.name = regName
        /\ ( /\ regOp'.op \in {"register", "register_missing", "register_disabled"}
             /\ (regName = "" \/ capturedImage = 0 \/ ~faceDescriptor.present) ) =>
              /\ inserting' = inserting
              /\ regTable' = regTable
              /\ UNCHANGED <<regName, capturedImage, faceDescriptor, isRegistering>> ]_vars

\* a click with photo and descriptor but no name
C21_Witness ==
    /\ regOp.op \in {"register_missing", "register_disabled"}
    /\ regName = ""
    /\ capturedImage # 0
    /\ faceDescriptor.present
    /\ ~inserting.active
    /\ ~isRegistering

\* C22 (as claimed): whenever a descriptor is held, it was computed from the
\* photo shown as captured.
C22_DescriptorOfShownPhoto ==
    faceDescriptor.present =>
        (capturedImage # 0 /\ faceDescriptor.values = DescriptorOf(capturedImage))

\* C29: a failed insert leaves name, photo and descriptor as they are and
\* sets isRegistering to false; a successful insert resets the three and
\* sets isRegistering to false; no other step of handleRegister resets them.
C29_FailureKeepsForm ==
    [][ /\ regOp'.op = "insert_failed" =>
              (UNCHANGED <<regName, capturedImage, faceDescriptor>> /\ ~isRegistering')
        /\ regOp'.op = "insert_succeeded" =>
              /\ regName' = "" /\ capturedImage' = 0 /\ ~faceDescriptor'.present
              /\ ~isRegistering'
        /\ regOp'.op \in {"register", "register_missing", "register_disabled"} =>
              UNCHANGED <<regName, capturedImage, faceDescriptor>> ]_vars

C29_Witness ==
    /\ regOp.op = "insert_failed"
    /\ regName = "Ann"
    /\ capturedImage # 0
    /\ faceDescriptor.present
    /\ ~isRegistering
    /\ regTable = <<>>

----------------------------------------------------------------------------
(* Claims about the chat panels and the ai-chat function *)

\* the conversation of the ai-chat panel: after the greeting every user
\* message but a last one still in flight is followed by one bot message
\* whose content is one of `contents`; isLoading holds exactly while the
\* last message is a user message
AiConversation(contents) ==
    /\ \A i \in 2..Len(aiMessages) :
          IF i % 2 = 0
          THEN aiMessages[i].type = "user"
          ELSE aiMessages[i].type = "bot" /\ aiMessages[i].content \in contents
    /\ aiIsLoading <=> (Len(aiMessages) % 2 = 0)

\* the user message at position 2k gets its bot message, and isLoading is
\* then false
AiAnswered ==
    \A k \in 1..MaxAiSends :
        (Len(aiMessages) = 2 * k) ~> (Len(aiMessages) = 2 * k + 1 /\ ~aiIsLoading)

\* C25 (as claimed): every accepted user message is eventually followed by
\* exactly one bot message, the model's response or the fixed error message,
\* and isLoading returns to false after success and after failure.
C25_ResponseOrErrorMessage ==
    /\ [](AiConversation({"response", "error_message"}))
    /\ AiAnswered

\* C25 (amended): every accepted user message is eventually followed by
\* exactly one bot message, which is the model's response, the fixed apology
\* shown when the response is empty, or the fixed error message, and
\* isLoading returns to false after success and after failure.
C25_ExactlyOneBotMessage ==
    /\ [](AiConversation({"response", "apology", "error_message"}))
    /\ AiAnswered

C25_Witness ==
    /\ ~aiIsLoading
    /\ Len(aiMessages) = 5
    /\ aiMessages[2].type = "user"
    /\ aiMessages[3] = AiBotMessage("error_message")
    /\ aiMessages[4].type = "user"
    /\ aiMessages[5] = AiBotMessage("apology")

\* C26 (as claimed), for the pattern-matching ChatBot: a message is sent
\* only while no request is in flight, the message list only grows at its
\* end, and whenever no request is in flight the messages after the greeting
\* alternate user, bot.
C26_OneRequestAlternating ==
    /\ [][ /\ (pendingSend'.active /\ pendingSend' # pendingSend) =>
                 (~isLoading /\ ~pendingSend.active)
           /\ Len(messages') >= Len(messages)
           /\ SubSeq(messages', 1, Len(messages)) = messages ]_vars
    /\ [](isLoading <=> pendingSend.active)
    /\ [](~pendingSend.active =>
             \A i \in 2..Len(messages) :
                 messages[i].type = (IF i % 2 = 0 THEN "user" ELSE "bot"))

\* The same for the ChatBot of Dashboard.tsx, whose catch block appends a
\* bot message
AiOneRequestAlternating ==
    /\ [][ /\ (aiPending'.active /\ aiPending' # aiPending) =>
                 (~aiIsLoading /\ ~aiPending.active)
           /\ Len(aiMessages') >= Len(aiMessages)
           /\ SubSeq(aiMessages', 1, Len(aiMessages)) = aiMessages ]_vars
    /\ [](aiIsLoading <=> aiPending.active)
    /\ [](~aiPending.active =>
             \A i \in 2..Len(aiMessages) :
                 aiMessages[i].type = (IF i % 2 = 0 THEN "user" ELSE "bot"))

FnFailures == {"bad_body", "face_error", "no_api_key", "fetch_rejected", "not_ok", "bad_json"}

\* C27: a chat_messages row is stored only by the step that follows a
\* successful model call, and it holds the query and the model's response;
\* every failure before that returns status 500 with an error body and
\* stores nothing; a failed insert returns the model's response with
\* status 200.
C27_StoreOnlyAfterModel ==
    /\ [][ /\ fnStored' # fnStored =>
                 /\ fnPc = "storing"
                 /\ fnOp' = "stored"
                 /\ fnStored' = Append(fnStored, [query |-> fnQuery, response |-> fnAiResponse])
                 /\ fnResponse' = [status |-> 200, kind |-> "response", response |-> fnAiResponse]
           /\ fnOp' \in FnFailures =>
                 /\ fnResponse'.status = 500
                 /\ fnResponse'.kind = "error"
                 /\ fnStored' = fnStored
           /\ fnOp' = "store_failed" =>
                 /\ fnStored' = fnStored
                 /\ fnResponse' = [status |-> 200, kind |-> "response", response |-> fnAiResponse'] ]_vars
    /\ [](fnResponse.status = 500 <=> fnOp \in FnFailures)
    /\ [](fnPc = "storing" => fnAiResponse \in FnAnswers)

C27_Witness ==
    /\ fnOp = "store_failed"
    /\ fnPc = "done"
    /\ fnResponse.status = 200
    /\ fnResponse.response = "other text"
    /\ fnStored = <<>>
    /\ fnHandled = 2

====
